---- MODULE Spec2Model ----
(***************************************************************************)
(* Model of the two pieces of logic of TopologicalMaterialAnalysis:        *)
(*   - the sub-complex partition of test_oineus.py (lines 26-63), which    *)
(*     splits a sorted list of weighted simplices into L and not_L, forms  *)
(*     K = L ++ not_L and numbers both lists;                              *)
(*   - plot_PDs of src/plots.py (lines 78-120), which collects the points  *)
(*     of several persistence diagrams into the columns of a scatter plot. *)
(* Python lists are 0-based; sequences here are 1-based, so sub[v] of the  *)
(* script is sub[v + 1] here and the id of position p is p - 1.            *)
(***************************************************************************)
EXTENDS Integers, Sequences, FiniteSets

VARIABLES simplices, sub, L, not_L, K, i, pc, run, prevL, prevK,
          dgms, birth, death, samp, inf_fin, max_val, pi, pj, ppc

buildVars == <<simplices, sub, L, not_L, K, i, pc, run, prevL, prevK>>
plotVars == <<dgms, birth, death, samp, inf_fin, max_val, pi, pj, ppc>>
vars == <<simplices, sub, L, not_L, K, i, pc, run, prevL, prevK,
          dgms, birth, death, samp, inf_fin, max_val, pi, pj, ppc>>

\* ---------------------------------------------------------------- bounds
NumVerts == 2
MaxLen == 3
MaxWeight == 1
MaxRuns == 2
MaxDgms == 2
MaxPts == 2
MaxBirth == 1
MaxDeath == 2

\* ------------------------------------------------- inputs of the partition
\* Vertex ids 0 .. NumVerts-1 index `sub`; id NumVerts is one past its end.
VertexIds == 0..NumVerts

SortedList(S) ==
  CHOOSE f \in [1..Cardinality(S) -> S] :
    \A a, b \in 1..Cardinality(S) : a < b => f[a] < f[b]

VertexLists == {SortedList(S) : S \in (SUBSET VertexIds) \ {{}}}

Weights == 0..MaxWeight

WeightedSimplices == {<<vs, w>> : vs \in VertexLists, w \in Weights}

SimplexLists == UNION {[1..n -> WeightedSimplices] : n \in 0..MaxLen}

\* ------------------------------------------------------ partition helpers
\* sub[v] of the script: defined for the indices of the list only.
InDomain(v) == v >= 0 /\ v < Len(sub)

Member(v) == sub[v + 1]

\* The inner loop of the multi-vertex branch: vertices are read in list
\* order, the first non-member breaks out, a vertex outside `sub` raises.
ScanFirstOnly(verts, k) ==
  IF ~InDomain(verts[1]) THEN "error"
  ELSE IF Member(verts[1]) = FALSE THEN "out"
  ELSE "in"

RECURSIVE ScanVertices(_, _)
ScanVertices(verts, k) ==
  IF k > Len(verts) THEN "in"
  ELSE IF ~InDomain(verts[k]) THEN "error"
  ELSE IF Member(verts[k]) = FALSE THEN "out"
  ELSE ScanVertices(verts, k + 1)

CheckSingleInverted(verts) ==
  IF ~InDomain(verts[1]) THEN "error"
  ELSE IF Member(verts[1]) = TRUE THEN "out"
  ELSE "in"

\* The single-vertex branch reads sub[s[0][0]] only.
CheckSingle(verts) ==
  IF ~InDomain(verts[1]) THEN "error"
  ELSE IF Member(verts[1]) = TRUE THEN "in"
  ELSE "out"

AppendZeroWeight(list, s) == Append(list, <<s[1], 0>>)

PrependSimplex(list, s) == <<(<<s[1], s[2]>>)>> \o list

AppendSimplex(list, s) == Append(list, <<s[1], s[2]>>)

ConcatNotLFirst(l, nl) == nl \o l

ConcatK(l, nl) == l \o nl

EnumerateFromOne(list) == [p \in 1..Len(list) |-> <<p, list[p][1], list[p][2]>>]

Enumerate(list) == [p \in 1..Len(list) |-> <<p - 1, list[p][1], list[p][2]>>]

\* ------------------------------------------------------------------ Init
PlotIdle ==
  /\ dgms = <<>> /\ birth = <<>> /\ death = <<>> /\ samp = <<>>
  /\ inf_fin = <<>> /\ max_val = 0 /\ pi = 0 /\ pj = 0 /\ ppc = "idle"

Init ==
  /\ simplices \in SimplexLists
  /\ sub \in [1..NumVerts -> BOOLEAN]
  /\ L = <<>> /\ not_L = <<>> /\ K = <<>>
  /\ i = 0 /\ pc = "loop" /\ run = 1
  /\ prevL = <<>> /\ prevK = <<>>
  /\ PlotIdle

\* --------------------------------------------------------------- actions
Current == simplices[i + 1]

InLoopSkipLast == pc = "loop" /\ i < Len(simplices) - 1

\* The for loop of line 31 runs its body while entries remain.
InLoop == pc = "loop" /\ i < Len(simplices)

SingleIn ==
  /\ InLoop /\ Len(Current[1]) = 1
  /\ CheckSingle(Current[1]) = "in"
  /\ L' = AppendSimplex(L, Current)
  /\ i' = i + 1
  /\ UNCHANGED <<simplices, sub, not_L, K, pc, run, prevL, prevK, plotVars>>

SingleOut ==
  /\ InLoop /\ Len(Current[1]) = 1
  /\ CheckSingle(Current[1]) = "out"
  /\ not_L' = AppendSimplex(not_L, Current)
  /\ i' = i + 1
  /\ UNCHANGED <<simplices, sub, L, K, pc, run, prevL, prevK, plotVars>>

MultiIn ==
  /\ InLoop /\ Len(Current[1]) # 1
  /\ ScanVertices(Current[1], 1) = "in"
  /\ L' = AppendSimplex(L, Current)
  /\ i' = i + 1
  /\ UNCHANGED <<simplices, sub, not_L, K, pc, run, prevL, prevK, plotVars>>

MultiOut ==
  /\ InLoop /\ Len(Current[1]) # 1
  /\ ScanVertices(Current[1], 1) = "out"
  /\ not_L' = AppendSimplex(not_L, Current)
  /\ i' = i + 1
  /\ UNCHANGED <<simplices, sub, L, K, pc, run, prevL, prevK, plotVars>>

\* sub[v] with v past the end of the list: the script stops with IndexError.
IndexError ==
  /\ InLoop
  /\ IF Len(Current[1]) = 1 THEN CheckSingle(Current[1]) = "error"
     ELSE ScanVertices(Current[1], 1) = "error"
  /\ pc' = "error"
  /\ UNCHANGED <<simplices, sub, L, not_L, K, i, run, prevL, prevK, plotVars>>

ConcatStale ==
  /\ pc = "loop" /\ ~InLoop
  /\ K' = K \o ConcatK(L, not_L)
  /\ pc' = "index"
  /\ UNCHANGED <<simplices, sub, L, not_L, i, run, prevL, prevK, plotVars>>

\* Lines 55-60: K is rebound to a fresh list, then filled from L and not_L.
Concat ==
  /\ pc = "loop" /\ ~InLoop
  /\ K' = ConcatK(L, not_L)
  /\ pc' = "index"
  /\ UNCHANGED <<simplices, sub, L, not_L, i, run, prevL, prevK, plotVars>>

AssignIds ==
  /\ pc = "index"
  /\ L' = Enumerate(L)
  /\ K' = Enumerate(K)
  /\ pc' = "done"
  /\ UNCHANGED <<simplices, sub, not_L, i, run, prevL, prevK, plotVars>>

\* The partition executed once more on the same inputs: lines 26-27 rebind
\* L and not_L; K is rebound only at line 55.
Rerun ==
  /\ pc = "done" /\ run < MaxRuns
  /\ prevL' = L /\ prevK' = K
  /\ L' = <<>> /\ not_L' = <<>>
  /\ i' = 0 /\ pc' = "loop" /\ run' = run + 1
  /\ UNCHANGED <<simplices, sub, K, plotVars>>

Next ==
  \/ SingleIn \/ SingleOut \/ MultiIn \/ MultiOut \/ IndexError
  \/ Concat \/ AssignIds \/ Rerun

Spec == Init /\ [][Next]_vars

\* ------------------------------------------------------------- plot_PDs
\* A diagram is a list of <<birth, death>> rows; math.inf is Infinity.
\* The death column of the plot is kept in tenths, so that max_val * 1.1
\* is the integer 11 * max_val and a finite death d is 10 * d.
Infinity == 1000

Points == {<<b, d>> : b \in 0..MaxBirth, d \in (1..MaxDeath) \cup {Infinity}}

Diagrams == UNION {[1..n -> Points] : n \in 0..MaxPts}

DiagramLists == UNION {[1..n -> Diagrams] : n \in 0..MaxDgms}

SetMax(S) == CHOOSE x \in S : \A y \in S : y <= x

\* dgm_vals of one diagram: its deaths other than math.inf.
FiniteDeaths(dgm) == {dgm[r][2] : r \in {q \in 1..Len(dgm) : dgm[q][2] # Infinity}}

\* vals: the largest finite death of each diagram that has one.
Vals(ds) == {SetMax(FiniteDeaths(ds[n])) : n \in {m \in 1..Len(ds) : FiniteDeaths(ds[m]) # {}}}

ScaledInfinite(m) == 11 * m

ScaledFinite(d) == 10 * d

InitPlot ==
  /\ dgms \in DiagramLists
  /\ birth = <<>> /\ death = <<>> /\ samp = <<>> /\ inf_fin = <<>>
  /\ max_val = 0 /\ pi = 0 /\ pj = 0 /\ ppc = "start"
  /\ simplices = <<>> /\ sub = <<>> /\ L = <<>> /\ not_L = <<>> /\ K = <<>>
  /\ i = 0 /\ pc = "idle" /\ run = 1 /\ prevL = <<>> /\ prevK = <<>>

ComputeMax ==
  /\ ppc = "start" /\ Vals(dgms) # {}
  /\ max_val' = SetMax(Vals(dgms))
  /\ ppc' = "plot"
  /\ UNCHANGED <<dgms, birth, death, samp, inf_fin, pi, pj, buildVars>>

\* With no finite death anywhere, line 104 reads the unbound name `births`.
ComputeMaxNameError ==
  /\ ppc = "start" /\ Vals(dgms) = {}
  /\ ppc' = "error"
  /\ UNCHANGED <<dgms, birth, death, samp, inf_fin, max_val, pi, pj, buildVars>>

\* Both loops of lines 106-107 range over len(dgms).
InPlotLoop == ppc = "plot" /\ pi < Len(dgms) /\ pj < Len(dgms)

RowExists == pj < Len(dgms[pi + 1])

Row == dgms[pi + 1][pj + 1]

AdvancePlot ==
  IF pj + 1 < Len(dgms) THEN pj' = pj + 1 /\ pi' = pi
  ELSE pj' = 0 /\ pi' = pi + 1

PlotInf ==
  /\ InPlotLoop /\ RowExists
  /\ Row[2] = Infinity
  /\ birth' = Append(birth, Row[1])
  /\ death' = Append(death, ScaledInfinite(max_val))
  /\ samp' = Append(samp, pi)
  /\ inf_fin' = Append(inf_fin, "inf")
  /\ AdvancePlot
  /\ UNCHANGED <<dgms, max_val, ppc, buildVars>>

PlotFin ==
  /\ InPlotLoop /\ RowExists
  /\ Row[2] # Infinity
  /\ birth' = Append(birth, Row[1])
  /\ death' = Append(death, ScaledFinite(Row[2]))
  /\ samp' = Append(samp, pi)
  /\ inf_fin' = Append(inf_fin, "fin")
  /\ AdvancePlot
  /\ UNCHANGED <<dgms, max_val, ppc, buildVars>>

\* dgms[i][j,1] with j past the rows of diagram i raises IndexError.
PlotIndexError ==
  /\ InPlotLoop /\ ~RowExists
  /\ ppc' = "error"
  /\ UNCHANGED <<dgms, birth, death, samp, inf_fin, max_val, pi, pj, buildVars>>

\* Lines 118-120: the columns become the data frame of the figure.
Finish ==
  /\ ppc = "plot" /\ pi = Len(dgms)
  /\ ppc' = "done"
  /\ UNCHANGED <<dgms, birth, death, samp, inf_fin, max_val, pi, pj, buildVars>>

NextPlot ==
  \/ ComputeMax \/ ComputeMaxNameError
  \/ PlotInf \/ PlotFin \/ PlotIndexError \/ Finish

SpecPlot == InitPlot /\ [][NextPlot]_vars

\* ------------------------------------------------- properties: partition
VertexSet(vs) == {vs[m] : m \in 1..Len(vs)}

AllValid ==
  \A k \in 1..Len(simplices) : \A v \in VertexSet(simplices[k][1]) :
    v \in 0..(Len(sub) - 1)

EveryVertexIn(vs) == \A v \in VertexSet(vs) : sub[v + 1]

\* L as (vertices, weight) pairs, whether or not ids were already assigned.
PlainL ==
  IF pc = "done" THEN [p \in 1..Len(L) |-> <<L[p][2], L[p][3]>>] ELSE L

PlainK == [p \in 1..Len(K) |-> <<K[p][2], K[p][3]>>]

Occurs(seq, e) == \E p \in 1..Len(seq) : seq[p] = e

Count(seq, e) == Cardinality({p \in 1..Len(seq) : seq[p] = e})

Processed == SubSeq(simplices, 1, i)

\* C1: when the predicate is defined on every referenced vertex, each
\* processed simplex is in L iff all of its vertices satisfy the predicate
\* and in not_L otherwise, for one-vertex and many-vertex simplices alike.
C1_ClassifiedByAllVertices ==
  AllValid =>
    \A k \in 1..i :
      /\ Occurs(PlainL, simplices[k]) <=> EveryVertexIn(simplices[k][1])
      /\ Occurs(not_L, simplices[k]) <=> ~EveryVertexIn(simplices[k][1])

C1_Witness ==
  /\ pc = "done" /\ AllValid
  /\ \E p \in 1..Len(L) : Len(L[p][2]) = 1
  /\ \E q \in 1..Len(not_L) :
       Len(not_L[q][1]) > 1 /\ sub[not_L[q][1][1] + 1]

\* C2: after i simplices were processed, L and not_L hold i entries in
\* total and together hold each processed (vertices, weight) entry exactly
\* as often as the input does, never the same entry in both; the numbered
\* K keeps the original weights.
C2_PartitionOfProcessed ==
  /\ Len(PlainL) + Len(not_L) = i
  /\ \A e \in WeightedSimplices :
       /\ Count(PlainL, e) + Count(not_L, e) = Count(Processed, e)
       /\ ~(Occurs(PlainL, e) /\ Occurs(not_L, e))
  /\ pc = "done" =>
       \A e \in WeightedSimplices : Count(PlainK, e) = Count(simplices, e)

C2_Witness ==
  /\ pc = "loop" /\ i = 2 /\ Len(simplices) > 2
  /\ Len(L) = 1 /\ Len(not_L) = 1
  /\ L[1][2] = 1 /\ not_L[1][2] = 1

ProperFaces(vs) == (SUBSET VertexSet(vs)) \ {{}, VertexSet(vs)}

\* Every proper face of every entry occurs at an earlier position; `at` is
\* the field of an entry that holds its vertex list.
ClosedSeq(seq, at) ==
  \A k \in 1..Len(seq) : \A f \in ProperFaces(seq[k][at]) :
    \E j \in 1..(k - 1) : VertexSet(seq[j][at]) = f

HasEdge(seq, at) == \E p \in 1..Len(seq) : Len(seq[p][at]) > 1

\* C3: if every proper face of every input simplex occurs earlier in the
\* input, every proper face of every simplex of the final L occurs earlier
\* in L.
C3_LClosed ==
  (pc = "done" /\ ClosedSeq(simplices, 1)) => ClosedSeq(L, 2)

C3_Witness ==
  /\ pc = "done" /\ ClosedSeq(simplices, 1)
  /\ HasEdge(L, 2)

\* C4: if the input is closed under faces in its order, so is the final
\* K = L ++ not_L.
C4_KClosed ==
  (pc = "done" /\ ClosedSeq(simplices, 1)) => ClosedSeq(K, 2)

C4_Witness ==
  /\ pc = "done" /\ ClosedSeq(simplices, 1)
  /\ Len(L) > 0 /\ HasEdge(not_L, 1)
  /\ Len(K) = Len(simplices)

\* The entries of seq at the positions in S, in increasing position order.
RECURSIVE Pick(_, _, _)
Pick(seq, S, k) ==
  IF k > Len(seq) THEN <<>>
  ELSE IF k \in S THEN <<seq[k]>> \o Pick(seq, S, k + 1)
  ELSE Pick(seq, S, k + 1)

\* C5: L and not_L are the input entries at two complementary sets of
\* positions, each taken in input order.
C5_StablePartition ==
  \E S \in SUBSET (1..i) :
    /\ PlainL = Pick(Processed, S, 1)
    /\ not_L = Pick(Processed, (1..i) \ S, 1)

C5_Witness ==
  /\ pc = "done"
  /\ Len(L) > 1 /\ <<L[1][2], L[1][3]>> # <<L[2][2], L[2][3]>>
  /\ Len(not_L) > 0

\* C6: in the result, position p of L and of K carries id p - 1 (0-based
\* positions), and the first Len(L) entries of K equal those of L.
C6_IdsByPosition ==
  pc = "done" =>
    /\ \A p \in 1..Len(L) : L[p][1] = p - 1
    /\ \A p \in 1..Len(K) : K[p][1] = p - 1
    /\ Len(L) <= Len(K)
    /\ \A p \in 1..Len(L) : K[p][2] = L[p][2] /\ K[p][3] = L[p][3]

C6_Witness ==
  /\ pc = "done" /\ Len(L) = 2 /\ Len(K) = 3

\* C7: an input with a vertex id outside the predicate's domain never gets
\* past the classification pass: no K is formed and no result is returned.
C7_InvalidVertexFails ==
  ~AllValid => pc \notin {"index", "done"}

EntriesMatch(out, inp) ==
  /\ Len(out) = Len(inp)
  /\ \A p \in 1..Len(out) : out[p][2] = inp[p][1] /\ out[p][3] = inp[p][2]

AllTrue == \A v \in 1..Len(sub) : sub[v]

AllFalse == \A v \in 1..Len(sub) : ~sub[v]

\* C8: empty input gives empty L and K without error; with every vertex a
\* member L is the input in order and not_L is empty; with no vertex a
\* member L is empty and K is the input in order.
C8_BoundaryCases ==
  /\ simplices = <<>> =>
       (pc # "error" /\ (pc = "done" => L = <<>> /\ K = <<>>))
  /\ (pc = "done" /\ AllTrue) =>
       (EntriesMatch(L, simplices) /\ not_L = <<>>)
  /\ (pc = "done" /\ AllFalse) =>
       (L = <<>> /\ EntriesMatch(K, simplices))

C8_Witness ==
  /\ pc = "done" /\ AllFalse
  /\ Len(simplices) > 1 /\ HasEdge(K, 2)

\* C9: a second execution on the same inputs ends with the same numbered L
\* and K as the first, and no step changes the simplices or the predicate.
C9_RepeatableAndPure ==
  /\ []((pc = "done" /\ run > 1) => (L = prevL /\ K = prevK))
  /\ [][simplices' = simplices /\ sub' = sub]_vars

C9_Witness ==
  /\ pc = "done" /\ run = 2
  /\ Len(L) > 0 /\ Len(K) > Len(L)

\* ------------------------------------------------- properties: plot_PDs
AllFiniteDeaths == UNION {FiniteDeaths(dgms[n]) : n \in 1..Len(dgms)}

ExpectedHeight(d) ==
  IF d = Infinity THEN 11 * SetMax(AllFiniteDeaths) ELSE 10 * d

Plotted(n, b, h) ==
  Cardinality({p \in 1..Len(birth) : samp[p] = n - 1 /\ birth[p] = b /\ death[p] = h})

RowsAtHeight(n, b, h) ==
  Cardinality({r \in 1..Len(dgms[n]) :
                 dgms[n][r][1] = b /\ ExpectedHeight(dgms[n][r][2]) = h})

Heights == {10 * d : d \in 1..MaxDeath} \cup {11 * d : d \in 1..MaxDeath}

\* C10: the finished plot holds every row of every diagram exactly once, a
\* row with finite death at its birth and death, a row with infinite death
\* at its birth and 1.1 times the largest finite death of all diagrams.
C10_EveryPointPlottedOnce ==
  ppc = "done" =>
    \A n \in 1..Len(dgms) : \A b \in 0..MaxBirth : \A h \in Heights :
      Plotted(n, b, h) = RowsAtHeight(n, b, h)

====
